---- MODULE Spec2Model ----
(***************************************************************************)
(* A model of the schema validator of src/src/lib/schema.js: the Schema    *)
(* class (construction, path getters, structure validation, parse) and the *)
(* Transformers registry.                                                  *)
(*                                                                         *)
(* JavaScript values are records of one shape, [t, s, n, kv]:              *)
(*   t   the kind of value ("undefined", "null", "string", "number",       *)
(*       "boolean", "function", "object", "array", "date", "schema"),      *)
(*   s   the text of a string, the name of a function, "NaN" for the       *)
(*       number NaN and the invalid date, the type of a Schema object,     *)
(*   n   the number, the boolean (1/0), the time value of a date, the      *)
(*       identity of a Schema object,                                      *)
(*   kv  the own enumerable properties of an object or array, in           *)
(*       insertion order, as a sequence of [k |-> key, v |-> value].       *)
(* A dotted path is kept as the sequence of its segments; Dot renders it   *)
(* as the string the code builds with template literals.  Property names   *)
(* of the model never contain a '.'.                                       *)
(***************************************************************************)
EXTENDS Integers, Sequences, FiniteSets, TLC

VARIABLES
  heap,          \* the Schema objects built so far, by identity (index)
  built,         \* outcome of the last constructor call
  Transformers,  \* the registry: type name -> transformer
  clock,         \* the time Date.now returns
  subject,       \* the Schema parse was called on (0: none yet)
  input,         \* the value handed to parse
  outcome        \* what the last parse call did, and the time of the call

vars == <<heap, built, Transformers, clock, subject, input, outcome>>

-----------------------------------------------------------------------------
(* Bounds *)

MaxKeys == 2        \* own properties of the root input mapping
MaxClock == 1       \* ticks of the clock

-----------------------------------------------------------------------------
(* JavaScript values *)

Undefined == [t |-> "undefined", s |-> "", n |-> 0, kv |-> <<>>]
Null == [t |-> "null", s |-> "", n |-> 0, kv |-> <<>>]
Str(x) == [t |-> "string", s |-> x, n |-> 0, kv |-> <<>>]
Num(x) == [t |-> "number", s |-> "", n |-> x, kv |-> <<>>]
NaN == [t |-> "number", s |-> "NaN", n |-> 0, kv |-> <<>>]
Bool(b) == [t |-> "boolean", s |-> "", n |-> IF b THEN 1 ELSE 0, kv |-> <<>>]
Fn(name) == [t |-> "function", s |-> name, n |-> 0, kv |-> <<>>]
Obj(kv) == [t |-> "object", s |-> "", n |-> 0, kv |-> kv]
Arr(items) == [t |-> "array", s |-> "", n |-> 0, kv |-> items]
DateOf(ms) == [t |-> "date", s |-> ms.s, n |-> ms.n, kv |-> <<>>]
KV(k, v) == [k |-> k, v |-> v]

\* a Schema object as a value: its identity and its `type` property
Instance(h, id) == [t |-> "schema", s |-> h[id].type, n |-> id, kv |-> <<>>]
Pair(a, b) == Arr(<<KV("0", a), KV("1", b)>>)
Regex(source) == [t |-> "regexp", s |-> source, n |-> 0, kv |-> <<>>]

\* typeof v
TypeOf(v) ==
  CASE v.t \in {"null", "object", "array", "date", "schema"} -> "object"
    [] OTHER -> v.t

\* !!v
Truthy(v) ==
  CASE v.t \in {"undefined", "null"} -> FALSE
    [] v.t = "string" -> v.s # ""
    [] v.t = "number" -> v.s # "NaN" /\ v.n # 0
    [] v.t = "boolean" -> v.n = 1
    [] OTHER -> TRUE

\* Object.keys(v), for an object or an array
Keys(v) == [i \in 1..Len(v.kv) |-> v.kv[i].k]

HasOwn(v, k) == \E i \in 1..Len(v.kv) : v.kv[i].k = k

\* v[k] for a value that has properties (undefined when k is missing); of
\* the properties of a Schema object the code reads `type` this way
Get(v, k) ==
  IF v.t = "schema" /\ k = "type" THEN Str(v.s)
  ELSE IF HasOwn(v, k)
  THEN v.kv[CHOOSE i \in 1..Len(v.kv) : v.kv[i].k = k].v
  ELSE Undefined

\* delete v[k]
Delete(v, k) ==
  [v EXCEPT !.kv = SelectSeq(v.kv, LAMBDA e : e.k # k)]

\* Object.assign(v, {[k]: x}): overwrite in place or append
Assign(v, k, x) ==
  IF HasOwn(v, k)
  THEN [v EXCEPT !.kv = [i \in 1..Len(v.kv) |->
                           IF v.kv[i].k = k THEN KV(k, x) ELSE v.kv[i]]]
  ELSE [v EXCEPT !.kv = Append(v.kv, KV(k, x))]

\* a path of segments as the dotted string
RECURSIVE Dot(_)
Dot(p) ==
  IF Len(p) = 0 THEN ""
  ELSE IF Len(p) = 1 THEN p[1]
  ELSE p[1] \o "." \o Dot(Tail(p))

-----------------------------------------------------------------------------
(* Schema construction *)

NoParent == 0

\* Schema.isNested
isNested(obj) ==
  TypeOf(obj) = "object" /\ ~Truthy(Get(obj, "type"))

\* Schema.guessType
RECURSIVE guessType(_)
guessType(value) ==
  IF TypeOf(value) = "function" THEN value.s
  ELSE IF TypeOf(value) = "object" /\ Truthy(Get(value, "type"))
       THEN guessType(Get(value, "type"))
  ELSE IF TypeOf(value) = "string" THEN value.s
  ELSE "Schema"

\* Schema.constructor and Schema._parseSchema.  The object is allocated
\* first, its children are built after it, left to right, each with its
\* parent link set to the object.  Returns the heap and the new identity.
RECURSIVE Schema(_, _, _, _), parseSchemaFrom(_, _, _, _)

\* Schema._parseSchema
_parseSchema(h, self, obj) ==
  IF ~isNested(obj) THEN [heap |-> h, ids |-> <<>>]
  ELSE parseSchemaFrom(h, self, obj, 1)

\* schemaClone binding the Schema object itself to the place, with no copy
schemaClone_rebindsOriginal(h, self, instance, prop) ==
  [heap |-> [h EXCEPT ![instance.n].name = prop, ![instance.n].parent = self],
   id |-> instance.n]

\* the copy _parseSchema makes of a Schema object found under prop: the
\* own properties of the object, `children` among them (the same array),
\* with name, parent and settings replaced
schemaClone(h, self, instance, prop) ==
  [heap |-> Append(h, [h[instance.n] EXCEPT !.name = prop,
                                            !.parent = self,
                                            !.settings = h[self].settings]),
   id |-> Len(h) + 1]

parseSchemaFrom(h, self, obj, i) ==
  IF i > Len(obj.kv) THEN [heap |-> h, ids |-> <<>>]
  ELSE LET child == IF obj.kv[i].v.t = "schema"
                    THEN schemaClone(h, self, obj.kv[i].v, obj.kv[i].k)
                    ELSE Schema(h, obj.kv[i].v, obj.kv[i].k, self)
           rest == parseSchemaFrom(child.heap, self, obj, i + 1)
       IN [heap |-> rest.heap, ids |-> <<child.id>> \o rest.ids]

Schema(h, schema, name, parent) ==
  LET self == Len(h) + 1
      node == [settings |-> Obj(<<>>),
               schema |-> schema,
               parent |-> parent,
               name |-> name,
               type |-> "",
               hasChildren |-> FALSE,
               children |-> <<>>]
  IN IF isNested(schema)
     THEN LET sub == _parseSchema(Append(h, [node EXCEPT !.type = "Schema"]),
                                  self, schema)
          IN [heap |-> [sub.heap EXCEPT ![self].hasChildren = TRUE,
                                        ![self].children = sub.ids],
              id |-> self]
     ELSE [heap |-> Append(h, [node EXCEPT
                      !.type = guessType(schema),
                      !.settings = IF TypeOf(schema) = "object"
                                   THEN Delete(Obj(schema.kv), "type")
                                   ELSE Obj(<<>>)]),
           id |-> self]

-----------------------------------------------------------------------------
(* Paths *)

\* get fullPath, as segments: the parent's fullPath, when the parent is set
\* and its fullPath is not the empty string, then the node's own name
RECURSIVE fullPathSeg(_, _)
fullPathSeg(h, id) ==
  LET up == IF h[id].parent # NoParent THEN fullPathSeg(h, h[id].parent)
            ELSE <<>>
  IN IF h[id].parent # NoParent /\ Dot(up) # ""
     THEN up \o <<h[id].name>>
     ELSE <<h[id].name>>

fullPath(h, id) == Dot(fullPathSeg(h, id))

\* get ownPaths
ownPaths(h, id) == [i \in 1..Len(h[id].children) |-> h[h[id].children[i]].name]

\* get paths, each path as segments
RECURSIVE paths(_, _), childPaths(_, _, _), childPaths_unprefixed(_, _, _)

\* childPaths without the name of the node in front of the paths
childPaths_unprefixed(h, id, i) ==
  IF i > Len(h[id].children) THEN <<>>
  ELSE paths(h, h[id].children[i]) \o childPaths_unprefixed(h, id, i + 1)

\* the forEach over the children in get paths
childPaths(h, id, i) ==
  IF i > Len(h[id].children) THEN <<>>
  ELSE LET sub == paths(h, h[id].children[i])
       IN [j \in 1..Len(sub) |->
             IF h[id].name # "" THEN <<h[id].name>> \o sub[j] ELSE sub[j]]
          \o childPaths(h, id, i + 1)

paths(h, id) ==
  IF h[id].hasChildren THEN childPaths(h, id, 1)
  ELSE <<<<h[id].name>>>>

\* schemaAtPath: the first child named as the first segment (0: undefined)
schemaAtPath(h, id, pathName) ==
  LET path == pathName[1]
      hits == {i \in 1..Len(h[id].children) : h[h[id].children[i]].name = path}
  IN IF hits = {} THEN 0
     ELSE h[id].children[CHOOSE i \in hits : \A j \in hits : i <= j]

\* hasField
hasField(h, id, fieldName) ==
  \E i \in 1..Len(paths(h, id)) : paths(h, id)[i] = fieldName

-----------------------------------------------------------------------------
(* Errors *)

NoError ==
  [cls |-> "", message |-> "", errors |-> <<>>, field |-> 0, value |-> Undefined]

\* new Error(message)
Error(message) ==
  [cls |-> "Error", message |-> message, errors |-> <<>>, field |-> 0,
   value |-> Undefined]

\* the TypeError the engine raises on a property access on null or undefined
TypeError(message) ==
  [cls |-> "TypeError", message |-> message, errors |-> <<>>, field |-> 0,
   value |-> Undefined]

\* new ValidationError(message, { errors = [], value, field })
ValidationError(message, errors, value, field) ==
  [cls |-> "ValidationError", message |-> message, errors |-> errors,
   field |-> field, value |-> value]

\* what a call did: the value it returned or the error it threw, and the
\* calls it made (parse of a node, default of a node, parse hook of a type,
\* the turn of an own path in the loop of a branch)
Ev(op, node, type) == [op |-> op, node |-> node, type |-> type, by |-> 0]

\* the turn of a child in the loop of the branch self
Turn(self, schema) == [Ev("ownPath", schema, "") EXCEPT !.by = self]
Return(v, log) == [threw |-> FALSE, val |-> v, err |-> NoError, log |-> log]
Throw(e, log) == [threw |-> TRUE, val |-> Undefined, err |-> e, log |-> log]

\* Schema.throwError
throwError(self, message, errors, value, log) ==
  Throw(ValidationError(message, errors, value, self), log)

\* Schema.castThrowable
castThrowable(value, error) ==
  IF value.t = "array" /\ Len(value.kv) = 2
  THEN <<value.kv[1].v, value.kv[2].v>>
  ELSE <<value, error>>

-----------------------------------------------------------------------------
(* Utilities consumed by the Schema class *)

\* utils/properties-restricted: the keys of obj are among properties
propertiesRestricted(obj, properties) ==
  \A i \in 1..Len(obj.kv) :
    \E j \in 1..Len(properties) : properties[j] = obj.kv[i].k

\* utils/obj-2-dot: the dotted keys of a mapping, nested mappings expanded
\* depth-first in key order
RECURSIVE obj2dotFrom(_, _, _)
obj2dotFrom(obj, parent, i) ==
  IF i > Len(obj.kv) THEN <<>>
  ELSE LET prop == obj.kv[i].k
           val == obj.kv[i].v
       IN (IF val.t = "object"
           THEN obj2dotFrom(val, parent \o <<prop>>, 1)
           ELSE <<parent \o <<prop>>>>)
          \o obj2dotFrom(obj, parent, i + 1)

obj2dot(obj) == obj2dotFrom(obj, <<>>, 1)

\* utils/cast-array
castArray(v) ==
  IF v.t = "array" THEN [i \in 1..Len(v.kv) |-> v.kv[i].v] ELSE <<v>>

-----------------------------------------------------------------------------
(* Conversions of the JavaScript runtime, on the values of the model *)

\* the strings the model gives a numeric reading
NumericStrings == {"", "0", "36"}

StringToNumber(s) ==
  CASE s = "" -> Num(0)
    [] s = "0" -> Num(0)
    [] s = "36" -> Num(36)
    [] OTHER -> NaN

\* Number(v)
ToNumber(v) ==
  CASE v.t = "undefined" -> NaN
    [] v.t = "null" -> Num(0)
    [] v.t = "boolean" -> Num(v.n)
    [] v.t = "number" -> v
    [] v.t = "string" -> StringToNumber(v.s)
    [] v.t = "date" -> [v EXCEPT !.t = "number"]
    [] v.t = "array" /\ Len(v.kv) = 0 -> Num(0)
    [] OTHER -> NaN

\* Number.isInteger(v)
IsInteger(v) == v.t = "number" /\ v.s # "NaN"

\* Date.parse(v): the time value, in milliseconds, of String(v).  The one
\* date string of the model is "11/11/1999" (its time value stands at 2000,
\* a whole number of seconds); the string of a Date has no milliseconds, so
\* a Date reads back cut to the second, and the invalid date as NaN
DateParse(v) ==
  CASE v.t = "string" /\ v.s = "11/11/1999" -> Num(2000)
    [] v.t = "date" /\ v.s # "NaN" -> Num((v.n \div 1000) * 1000)
    [] OTHER -> NaN

\* a call of a function value: Date.now returns the clock, every other
\* function of the model is a constant function returning its label
Call(f, now) == IF f.s = "now" THEN Num(now) ELSE Str(f.s)

\* the pattern of the Email transformer,
\* /^[a-z0-9._]+@[a-z0-9-]+\.[a-z]{2,}$/
EmailPattern == "^[a-z0-9._]+@[a-z0-9-]+[.][a-z]{2,}$"

\* regex.test(v), for the patterns of the model, /^[a-z]+$/i and the
\* pattern of the Email transformer, on the strings of the model
RegexTest(regex, s) ==
  \/ regex.s = "^[a-z]+$" /\ s \in {"x", "Martin", "tin"}
  \/ regex.s = EmailPattern /\ s = "tin@devtin.io"

-----------------------------------------------------------------------------
(* The Transformers registry *)

\* Transformers.String.parse
StringParse(h, self, v, log) ==
  LET settings == h[self].settings
      minl == castThrowable(Get(settings, "minlength"), Str("Invalid minlength"))
      maxl == castThrowable(Get(settings, "maxlength"), Str("Invalid maxlength"))
      rgx == castThrowable(Get(settings, "regex"), Str("Invalid regex"))
      str == IF TypeOf(v) # "string" THEN Call(Get(v, "toString"), 0) ELSE v
  IN IF TypeOf(v) # "string" /\ v.t = "null"
     THEN Throw(TypeError("Cannot read property 'hasOwnProperty' of null"), log)
     ELSE IF TypeOf(v) # "string"
             /\ ~(TypeOf(v) = "object" /\ HasOwn(v, "toString"))
     THEN throwError(self, "Invalid string", <<>>, v, log)
     ELSE IF Truthy(Get(settings, "minlength")) /\ Len(str.s) < minl[1].n
     THEN throwError(self, minl[2].s, <<>>, str, log)
     ELSE IF Truthy(Get(settings, "maxlength")) /\ Len(str.s) > maxl[1].n
     THEN throwError(self, maxl[2].s, <<>>, str, log)
     ELSE IF Truthy(Get(settings, "regex")) /\ ~RegexTest(rgx[1], str.s)
     THEN throwError(self, rgx[2].s, <<>>, str, log)
     ELSE Return(str, log)

\* Transformers.Number.parse
NumberParse(h, self, v, log) ==
  IF ToNumber(v) = NaN
  THEN Throw(Error("Invalid number"), log)
  ELSE Return(ToNumber(v), log)

\* Transformers.Date.parse: new Date(...) is a Date whatever its argument,
\* so the instanceof test never fails
DateTransformerParse(h, self, v, log) ==
  Return(DateOf(IF IsInteger(v) THEN v ELSE DateParse(v)), log)

\* Transformers.Function.parse
FunctionParse(h, self, v, log) ==
  IF TypeOf(v) # "function"
  THEN Throw(Error("Invalid function"), log)
  ELSE Return(v, log)

\* export const Transformers: every built-in entry has a parse hook only
NoLoaders == Undefined

BuiltinTransformers ==
  [name \in {"String", "Number", "Date", "Function"} |->
     [loaders |-> NoLoaders, parse |-> name]]

\* Transformers.Email, as registered by its user: a loader of type String
\* with a pattern of its own, a validate hook, and no parse hook
EmailEntry ==
  [loaders |->
     Arr(<<KV("0", Obj(<<KV("type", Fn("String")),
                         KV("regex",
                            Pair(Regex(EmailPattern),
                                 Str("Invalid e-mail address { value } for field { field.name }")))>>))>>),
   parse |-> ""]

\* transformer.parse.call(this, v); an entry without a parse hook has
\* undefined for transformer.parse, and the call of undefined is a TypeError
TransformerParse(entry, h, self, v, log) ==
  CASE entry.parse = "" ->
         Throw(TypeError("Cannot read property 'call' of undefined"), log)
    [] entry.parse = "String" -> StringParse(h, self, v, log)
    [] entry.parse = "Number" -> NumberParse(h, self, v, log)
    [] entry.parse = "Date" -> DateTransformerParse(h, self, v, log)
    [] entry.parse = "Function" -> FunctionParse(h, self, v, log)

-----------------------------------------------------------------------------
(* Parsing.  T is the registry, now the clock, h the heap. *)

\* Schema.structureValidation: the error it throws, NoError when it returns
structureValidation(h, self, obj) ==
  IF ~Truthy(obj) THEN NoError
  ELSE IF ~propertiesRestricted(obj, ownPaths(h, self))
  THEN LET unknownFields ==
             SelectSeq(obj2dot(obj), LAMBDA field : ~hasField(h, self, field))
       IN ValidationError("Invalid object schema",
            [i \in 1..Len(unknownFields) |->
               Error("Unknown property " \o Dot(unknownFields[i]))],
            obj, 0)
  ELSE NoError

\* catchChild with the caught errors put in front of the collected ones
catchChild_prepends(errors, err) ==
  IF err.cls = "ValidationError" /\ Len(err.errors) > 0
  THEN err.errors \o errors
  ELSE <<err>> \o errors

\* catchChild pushing whatever was caught as it is
catchChild_keepsComposite(errors, err) == Append(errors, err)

\* the catch clause of Schema._parseNested: the errors collected so far
\* and the error caught
catchChild(errors, err) ==
  IF err.cls = "ValidationError" /\ Len(err.errors) > 0
  THEN errors \o err.errors
  ELSE Append(errors, err)

RECURSIVE parse(_, _, _, _, _, _), _run(_, _, _, _, _, _, _)
RECURSIVE runLoaders(_, _, _, _, _, _, _, _), parseChildren(_, _, _, _, _, _, _)

\* Schema._run
_run(h, T, now, self, type, v, log) ==
  LET settings == h[self].settings
      req == castThrowable(Get(settings, "required"),
                           Str("Field " \o fullPath(h, self) \o " is required"))
  IN IF type \notin DOMAIN T
     THEN Throw(Error("Don't know how to resolve " \o type), log)
     ELSE IF v = Undefined /\ ~Truthy(Get(settings, "required"))
     THEN Return(Undefined, log)
     ELSE IF ~Truthy(v) /\ Truthy(Get(settings, "required")) /\ Truthy(req[1])
     THEN throwError(self, req[2].s, <<>>, v, log)
     ELSE LET loaded == IF Truthy(T[type].loaders)
                        THEN runLoaders(h, T, now, self, castArray(T[type].loaders),
                                        1, v, log)
                        ELSE Return(v, log)
          IN IF loaded.threw THEN loaded
             ELSE TransformerParse(T[type], h, self, loaded.val,
                    Append(loaded.log, Ev("transformer.parse", self, type)))

\* the forEach over the loaders in Schema._run
runLoaders(h, T, now, self, loaders, i, v, log) ==
  IF i > Len(loaders) THEN Return(v, log)
  ELSE LET r == _run(h, T, now, self, guessType(loaders[i]), v, log)
       IN IF r.threw THEN r
          ELSE runLoaders(h, T, now, self, loaders, i + 1, r.val, r.log)

\* parseChildren leaving the loop at the first child that fails
parseChildren_stopsAtFirst(h, T, now, self, obj, i, acc) ==
  IF i > Len(ownPaths(h, self)) THEN acc
  ELSE LET schema == schemaAtPath(h, self, <<ownPaths(h, self)[i]>>)
           here == Append(acc.log, Turn(self, schema))
           r == IF obj.t = "null"
                THEN Throw(TypeError("Cannot read property '"
                                     \o h[schema].name \o "' of null"), here)
                ELSE parse(h, T, now, schema,
                           IF TypeOf(obj) = "object"
                           THEN Get(obj, h[schema].name) ELSE Undefined,
                           here)
       IN IF r.threw
          THEN [acc EXCEPT !.errors = catchChild(acc.errors, r.err),
                           !.log = r.log]
          ELSE parseChildren(h, T, now, self, obj, i + 1,
                 IF r.val # Undefined
                 THEN [acc EXCEPT !.resultingObject =
                                    Assign(acc.resultingObject, h[schema].name,
                                           r.val),
                                  !.log = r.log]
                 ELSE [acc EXCEPT !.log = r.log])

\* parseChildren leaving out the last own path
parseChildren_skipsLast(h, T, now, self, obj, i, acc) ==
  IF i >= Len(ownPaths(h, self)) THEN acc
  ELSE LET schema == schemaAtPath(h, self, <<ownPaths(h, self)[i]>>)
           r == parse(h, T, now, schema,
                      IF TypeOf(obj) = "object" /\ obj.t # "null"
                      THEN Get(obj, h[schema].name) ELSE Undefined,
                      Append(acc.log, Turn(self, schema)))
       IN parseChildren(h, T, now, self, obj, i + 1,
            IF r.threw
            THEN [acc EXCEPT !.errors = catchChild(acc.errors, r.err),
                             !.log = r.log]
            ELSE IF r.val # Undefined
            THEN [acc EXCEPT !.resultingObject =
                               Assign(acc.resultingObject, h[schema].name, r.val),
                             !.log = r.log]
            ELSE [acc EXCEPT !.log = r.log])

\* the forEach over ownPaths in Schema._parseNested; acc holds
\* resultingObject, errors and the calls made so far
parseChildren(h, T, now, self, obj, i, acc) ==
  IF i > Len(ownPaths(h, self)) THEN acc
  ELSE LET schema == schemaAtPath(h, self, <<ownPaths(h, self)[i]>>)
           here == Append(acc.log, Turn(self, schema))
           r == IF schema = 0
                THEN Throw(TypeError("Cannot read property 'parse' of undefined"),
                           here)
                ELSE IF obj.t = "null"
                THEN Throw(TypeError("Cannot read property '"
                                     \o h[schema].name \o "' of null"), here)
                ELSE parse(h, T, now, schema,
                           IF TypeOf(obj) = "object"
                           THEN Get(obj, h[schema].name) ELSE Undefined,
                           here)
       IN parseChildren(h, T, now, self, obj, i + 1,
            IF r.threw
            THEN [acc EXCEPT !.errors = catchChild(acc.errors, r.err),
                             !.log = r.log]
            ELSE IF r.val # Undefined
            THEN [acc EXCEPT !.resultingObject =
                               Assign(acc.resultingObject, h[schema].name, r.val),
                             !.log = r.log]
            ELSE [acc EXCEPT !.log = r.log])

\* _parseNested validating the structure after the children are parsed
_parseNested_validatesLast(h, T, now, self, obj, log) ==
  LET sv == structureValidation(h, self, obj)
      acc == parseChildren(h, T, now, self, obj, 1,
               [resultingObject |-> Obj(<<>>), errors |-> <<>>, log |-> log])
  IN IF Len(acc.errors) > 0
     THEN Throw(ValidationError("Data is not valid", acc.errors, Undefined, 0),
                acc.log)
     ELSE IF sv # NoError THEN Throw(sv, acc.log)
     ELSE Return(IF Len(Keys(acc.resultingObject)) > 0
                 THEN acc.resultingObject ELSE Undefined, acc.log)

\* _parseNested returning the mapping it assembled also when it is empty
_parseNested_emptyMapping(h, T, now, self, obj, log) ==
  LET sv == structureValidation(h, self, obj)
      acc == parseChildren(h, T, now, self, obj, 1,
               [resultingObject |-> Obj(<<>>), errors |-> <<>>, log |-> log])
  IN IF sv # NoError THEN Throw(sv, log)
     ELSE IF Len(acc.errors) > 0
     THEN Throw(ValidationError("Data is not valid", acc.errors, Undefined, 0),
                acc.log)
     ELSE Return(acc.resultingObject, acc.log)

\* Schema._parseNested
_parseNested(h, T, now, self, obj, log) ==
  LET sv == structureValidation(h, self, obj)
      acc == parseChildren(h, T, now, self, obj, 1,
               [resultingObject |-> Obj(<<>>), errors |-> <<>>, log |-> log])
  IN IF sv # NoError THEN Throw(sv, log)
     ELSE IF Len(acc.errors) > 0
     THEN Throw(ValidationError("Data is not valid", acc.errors, Undefined, 0),
                acc.log)
     ELSE Return(IF Len(Keys(acc.resultingObject)) > 0
                 THEN acc.resultingObject ELSE Undefined, acc.log)

\* Schema.parse
parse(h, T, now, self, v, log) ==
  LET here == Append(log, Ev("parse", self, h[self].type))
      default == Get(h[self].settings, "default")
      subst == Truthy(default) /\ ~Truthy(v)
      v1 == IF subst
            THEN (IF TypeOf(default) = "function" THEN Call(default, now)
                  ELSE default)
            ELSE v
  IN IF h[self].hasChildren
     THEN _parseNested(h, T, now, self, v, here)
     ELSE _run(h, T, now, self, h[self].type, v1,
               IF subst THEN Append(here, Ev("default", self, h[self].type))
               ELSE here)

-----------------------------------------------------------------------------
(* The definitions and inputs the model draws from *)

Required(v) == KV("required", v)
Default(v) == KV("default", v)
Leaf(type, options) == Obj(<<KV("type", type)>> \o options)

\* {name: String, age: Number}
PersonDef ==
  Obj(<<KV("name", Fn("String")), KV("age", Fn("Number"))>>)

\* {name: {type: String, required: true},
\*  age: {type: Number, required: [true, 'Age is needed']},
\*  address: {line1: {type: String, required: true}, zip: Number}}
ContactDef ==
  Obj(<<KV("name", Leaf(Fn("String"), <<Required(Bool(TRUE))>>)),
        KV("age", Leaf(Fn("Number"),
                       <<Required(Pair(Bool(TRUE), Str("Age is needed")))>>)),
        KV("address",
           Obj(<<KV("line1", Leaf(Fn("String"), <<Required(Bool(TRUE))>>)),
                 KV("zip", Fn("Number"))>>))>>)

\* {name: String, age: {type: Number, default: 36},
\*  foo: {type: Number, default: 0}}
DefaultsDef ==
  Obj(<<KV("name", Fn("String")),
        KV("age", Leaf(Fn("Number"), <<Default(Num(36))>>)),
        KV("foo", Leaf(Fn("Number"), <<Default(Num(0))>>))>>)

\* {name: String, age: {type: Date, default: Date.now}}
RegisteredDef ==
  Obj(<<KV("name", Fn("String")),
        KV("age", Leaf(Fn("Date"), <<Default(Fn("now"))>>))>>)

\* {name: {type: String, required: true, default: 'x'}}
ContradictoryDef ==
  Obj(<<KV("name", Leaf(Fn("String"),
                        <<Required(Bool(TRUE)), Default(Str("x"))>>))>>)

\* {name: String, age: {type: 'Email'}, foo: {type: Number, required: true}}
CustomDef ==
  Obj(<<KV("name", Fn("String")),
        KV("age", Leaf(Str("Email"), <<>>)),
        KV("foo", Leaf(Fn("Number"), <<Required(Bool(TRUE))>>))>>)

\* {type: String, required: true}
RequiredStringDef == Leaf(Fn("String"), <<Required(Bool(TRUE))>>)

\* {type: Number, required: [true, 'A number is needed']}
RequiredNumberDef ==
  Leaf(Fn("Number"), <<Required(Pair(Bool(TRUE), Str("A number is needed")))>>)

\* Date
DateDef == Fn("Date")

\* {type: Number, min: 0}
MinimumDef == Leaf(Fn("Number"), <<KV("min", Num(0))>>)

\* {type: Number, max: 0}
MaximumDef == Leaf(Fn("Number"), <<KV("max", Num(0))>>)

\* {type: Number, autoCast: true}
AutoCastDef == Leaf(Fn("Number"), <<KV("autoCast", Bool(TRUE))>>)

\* {line1: {type: String, required: true}, zip: Number}
AddressDef ==
  Obj(<<KV("line1", Leaf(Fn("String"), <<Required(Bool(TRUE))>>)),
        KV("zip", Fn("Number"))>>)

\* the hooks of the guide: functions that trace their call
Hooks == <<KV("cast", Fn("cast")), KV("validate", Fn("validate"))>>

\* {name: {type: String, cast, validate}, age: {type: Number, cast, validate}}
HookedDef ==
  Obj(<<KV("name", Leaf(Fn("String"), Hooks)),
        KV("age", Leaf(Fn("Number"), Hooks))>>)

\* {name: String, foo: [String, Number]}
MultipleTypesDef ==
  Obj(<<KV("name", Fn("String")),
        KV("foo", Arr(<<KV("0", Fn("String")), KV("1", Fn("Number"))>>))>>)

\* {address: {'': String, zip: Number}}
EmptyKeyDef ==
  Obj(<<KV("address", Obj(<<KV("", Fn("String")), KV("zip", Fn("Number"))>>))>>)

Defs ==
  {PersonDef, ContactDef, DefaultsDef, RegisteredDef, ContradictoryDef,
   CustomDef, RequiredStringDef, RequiredNumberDef, DateDef, MinimumDef,
   MaximumDef, AutoCastDef, AddressDef, HookedDef, MultipleTypesDef,
   EmptyKeyDef}

\* the definitions that use a Schema object built before, AddressSchema:
\* {name: String, address: AddressSchema},
\* {name: String, address: {type: AddressSchema}} and
\* {address: AddressSchema, foo: AddressSchema}
EmbeddingDefs(h, id) ==
  {Obj(<<KV("name", Fn("String")), KV("address", Instance(h, id))>>),
   Obj(<<KV("name", Fn("String")),
         KV("address", Leaf(Instance(h, id), <<>>))>>),
   Obj(<<KV("address", Instance(h, id)), KV("foo", Instance(h, id))>>)}

\* the Schema objects a definition uses
InstancesIn(schema) ==
  {schema.kv[i].v.n : i \in {j \in 1..Len(schema.kv) :
                               schema.kv[j].v.t = "schema"}}
  \cup {Get(schema.kv[i].v, "type").n :
          i \in {j \in 1..Len(schema.kv) :
                   /\ schema.kv[j].v.t = "object"
                   /\ Get(schema.kv[j].v, "type").t = "schema"}}

\* the constructor calls drawn: a definition and the second argument.  The
\* schema with hooks is built with the schema-level hooks of the guide; a
\* definition that uses AddressSchema is built once AddressSchema is.  A
\* schema of built-in types reads no other entry of the registry, so with
\* Email registered the schema that names Email is the one followed.
Constructions(h, last, T) ==
  {[schema |-> d, options |-> IF d = HookedDef THEN Obj(Hooks) ELSE Obj(<<>>)] :
     d \in IF T = BuiltinTransformers THEN Defs ELSE {CustomDef}}
  \cup (IF h # <<>> /\ last = AddressDef
        THEN {[schema |-> d, options |-> Obj(<<>>)] : d \in EmbeddingDefs(h, 1)}
        ELSE {})

\* the values an input mapping holds under each key
InputKeys == {"name", "age", "address", "foo"}

ValuesFor(k) ==
  CASE k = "name" -> {Str("x"), Str(""), Null}
    [] k = "age" -> {Num(36), Str("36"), Str("x"), Num(0), Undefined}
    [] k = "address" ->
         {Obj(<<KV("line1", Str("x"))>>),
          Obj(<<KV("line1", Str("x")), KV("foo", Str("y"))>>),
          Obj(<<KV("foo", Str("y")), KV("zip", Num(36))>>),
          Obj(<<>>),
          Null}
    [] k = "foo" -> {Num(7), Obj(<<KV("bar", Str("z"))>>), Obj(<<>>)}

\* the property lists of at most n properties, keys distinct, in every order
RECURSIVE PropertyLists(_)
PropertyLists(n) ==
  IF n = 0 THEN {<<>>}
  ELSE LET shorter == PropertyLists(n - 1)
           longest == {l \in shorter : Len(l) = n - 1}
           free(l) == {k \in InputKeys : \A i \in 1..Len(l) : l[i].k # k}
       IN shorter \cup
          UNION {UNION {{Append(l, KV(k, v)) : v \in ValuesFor(k)} :
                          k \in free(l)} : l \in longest}

Mappings == {Obj(kv) : kv \in PropertyLists(MaxKeys)}

ScalarInputs ==
  {Undefined, Null, Str("x"), Str(""), Str("36"), Str("11/11/1999"),
   Str("tin@devtin.io"), Num(36), Num(0), Num(-1)}

\* A schema is parsed with a mapping, null or undefined; a nested branch
\* with what a mapping holds under its name; a leaf with any value.  What
\* propertiesRestricted and obj2dot make of a string or a number is not
\* modelled.  The schemas drawn for the shape of their tree, the one with an
\* array of types and the one with an empty key, are parsed with the
\* mappings of one key.
InputsFor(h, id) ==
  IF h[id].hasChildren /\ h[id].parent = NoParent /\ h[id].schema = AddressDef
  THEN ValuesFor("address") \cup {Undefined}
  ELSE IF h[id].hasChildren /\ h[id].parent = NoParent
          /\ h[id].schema \in {MultipleTypesDef, EmptyKeyDef}
  THEN UNION {{Obj(<<KV(k, v)>>) : v \in ValuesFor(k)} : k \in {"address", "foo"}}
       \cup {Obj(<<>>), Undefined}
  ELSE IF h[id].hasChildren /\ h[id].parent = NoParent
  THEN Mappings \cup {Undefined, Null}
  ELSE IF h[id].hasChildren
  THEN ValuesFor(h[id].name) \cup {Undefined}
  ELSE ScalarInputs \cup {Obj(<<KV("name", Str("x"))>>)}

-----------------------------------------------------------------------------
(* The state machine *)

NoOutcome ==
  [done |-> FALSE, at |-> 0, threw |-> FALSE, val |-> Undefined,
   err |-> NoError, log |-> <<>>]

NotBuilt ==
  [done |-> FALSE, threw |-> FALSE, schema |-> Undefined, options |-> Undefined]

Init ==
  /\ heap = <<>>
  /\ subject = 0
  /\ built = NotBuilt
  /\ Transformers = BuiltinTransformers
  /\ clock = 0
  /\ input = Undefined
  /\ outcome = NoOutcome

\* new Schema(schema, options).  Of its second argument the constructor
\* reads name and parent.  Schemas built apart share nothing but the
\* registry, so a behaviour builds one, and after it the schemas that use it.
Construct(schema, options) ==
  /\ ~outcome.done
  /\ IF InstancesIn(schema) = {} THEN heap = <<>>
     ELSE \A id \in 1..Len(heap) : heap[id].name # "address"
  /\ LET name == IF Truthy(Get(options, "name")) THEN Get(options, "name").s
                 ELSE ""
         made == Schema(heap, schema, name, NoParent)
     IN heap' = made.heap
  /\ built' = [done |-> TRUE, threw |-> FALSE, schema |-> schema,
               options |-> options]
  /\ subject' = 0
  /\ input' = Undefined
  /\ outcome' = NoOutcome
  /\ UNCHANGED <<Transformers, clock>>

\* Parse writing on the node it is called on
Parse_marksSubject(self, v) ==
  /\ ~outcome.done
  /\ subject' = self
  /\ input' = v
  /\ LET r == parse(heap, Transformers, clock, self, v, <<>>)
     IN outcome' = [done |-> TRUE, at |-> clock, threw |-> r.threw,
                    val |-> r.val, err |-> r.err, log |-> r.log]
  /\ heap' = [heap EXCEPT ![self].settings = Assign(@, "parsed", Bool(TRUE))]
  /\ UNCHANGED <<built, Transformers, clock>>

\* schema.parse(v), on a schema built or on one of its nodes.  A call
\* leaves the schema and the registry as they were, so one call per schema
\* built is followed; a second call is the first call of another behaviour.
Parse(self, v) ==
  /\ ~outcome.done
  /\ subject' = self
  /\ input' = v
  /\ LET r == parse(heap, Transformers, clock, self, v, <<>>)
     IN outcome' = [done |-> TRUE, at |-> clock, threw |-> r.threw,
                    val |-> r.val, err |-> r.err, log |-> r.log]
  /\ UNCHANGED <<heap, built, Transformers, clock>>

\* Transformers.Email = {...}.  The registry is read when a value is
\* parsed, so a registration is followed before the schema is built.
Register ==
  /\ heap = <<>>
  /\ "Email" \notin DOMAIN Transformers
  /\ Transformers' = [name \in DOMAIN Transformers \cup {"Email"} |->
                        IF name = "Email" THEN EmailEntry
                        ELSE Transformers[name]]
  /\ UNCHANGED <<heap, built, clock, subject, input, outcome>>

\* time passes
Tick ==
  /\ clock < MaxClock
  /\ clock' = clock + 1
  /\ UNCHANGED <<heap, built, Transformers, subject, input, outcome>>

Next ==
  \/ \E c \in Constructions(heap, built.schema, Transformers) :
       Construct(c.schema, c.options)
  \/ Register
  \/ \E self \in 1..Len(heap) : \E v \in InputsFor(heap, self) : Parse(self, v)
  \/ Tick

Spec == Init /\ [][Next]_vars

TypeOK ==
  /\ subject \in 0..Len(heap)
  /\ outcome.done = (subject # 0)
  /\ clock \in 0..MaxClock
  /\ outcome.done => outcome.threw = (outcome.err # NoError)

-----------------------------------------------------------------------------
(* Vocabulary of the properties *)

Children(id) == heap[id].children

\* a parse call on a branch has ended
BranchParsed == outcome.done /\ heap[subject].hasChildren

\* the input has a property the branch parsed does not declare
HasUndeclaredKey ==
  /\ input.t = "object"
  /\ \E i \in 1..Len(input.kv) :
       \A j \in 1..Len(Children(subject)) :
         heap[Children(subject)[j]].name # input.kv[i].k

Messages(errors) == [i \in 1..Len(errors) |-> errors[i].message]

\* the value of the input under the name of a child
ChildValue(c) ==
  IF input.t = "object" THEN Get(input, heap[c].name) ELSE Undefined

\* the parse of one child on its own, with the value the input holds for it
ChildOutcome(c) ==
  parse(heap, Transformers, outcome.at, c, ChildValue(c), <<>>)

\* the turn of a child fails: its value cannot be read (null has no
\* properties) or its parse throws
ChildFails(c) == input.t = "null" \/ ChildOutcome(c).threw

\* the leaf errors a thrown error stands for
LeafErrors(err) ==
  IF err.cls = "ValidationError" /\ err.errors # <<>> THEN err.errors
  ELSE <<err>>

\* the errors of the children i.. of the branch parsed, child after child
RECURSIVE ErrorsFrom(_)
ErrorsFrom(i) ==
  IF i > Len(Children(subject)) THEN <<>>
  ELSE LET r == ChildOutcome(Children(subject)[i])
       IN (IF r.threw THEN LeafErrors(r.err) ELSE <<>>) \o ErrorsFrom(i + 1)

\* the properties of the children i.. whose parse gives a value
RECURSIVE ValuesFrom(_)
ValuesFrom(i) ==
  IF i > Len(Children(subject)) THEN <<>>
  ELSE LET c == Children(subject)[i]
           r == ChildOutcome(c)
       IN (IF r.val # Undefined THEN <<KV(heap[c].name, r.val)>> ELSE <<>>)
          \o ValuesFrom(i + 1)

\* the children of the branch parsed that had their turn in its loop, in
\* the order of the turns
Turns ==
  LET evs == SelectSeq(outcome.log,
                       LAMBDA e : /\ e.op = "ownPath"
                                  /\ \E i \in 1..Len(Children(subject)) :
                                       Children(subject)[i] = e.node)
  IN [i \in 1..Len(evs) |-> evs[i].node]

\* the paths of the leaves under a node, relative to the node
RECURSIVE Declared(_), DeclaredFrom(_, _)
DeclaredFrom(id, i) ==
  IF i > Len(Children(id)) THEN <<>>
  ELSE LET c == Children(id)[i]
           sub == Declared(c)
       IN [j \in 1..Len(sub) |-> <<heap[c].name>> \o sub[j]]
          \o DeclaredFrom(id, i + 1)

Declared(id) ==
  IF heap[id].hasChildren THEN DeclaredFrom(id, 1) ELSE <<<<>>>>

\* the dotted keys of the input that the branch parsed does not declare
UndeclaredKeys ==
  SelectSeq(obj2dot(input),
            LAMBDA k : \A j \in 1..Len(Declared(subject)) :
                         Declared(subject)[j] # k)

-----------------------------------------------------------------------------
(* Structural validation *)

\* C1: a branch, root or nested, parsed with a mapping that has a property
\* the branch does not declare throws 'Invalid object schema' with one
\* 'Unknown property <dotted path>' per undeclared key of the flattened
\* input, in the order of the flattening, and none for a declared key.
C1_UnknownPropertiesListed ==
  (BranchParsed /\ HasUndeclaredKey)
  => /\ outcome.threw
     /\ outcome.err.cls = "ValidationError"
     /\ outcome.err.message = "Invalid object schema"
     /\ Messages(outcome.err.errors)
          = [i \in 1..Len(UndeclaredKeys) |->
               "Unknown property " \o Dot(UndeclaredKeys[i])]

\* C1 holds of a schema parsed at its root, the case of the guide
C1_AtTheRoot ==
  (BranchParsed /\ heap[subject].name = "") => C1_UnknownPropertiesListed

-----------------------------------------------------------------------------
(* Aggregation of the errors of a branch *)

\* C3: the errors of the 'Data is not valid' composite of a branch are the
\* errors of its failing children in the order the children are declared,
\* whatever the order of the keys of the input mapping.
C3_DeclarationOrder ==
  (BranchParsed /\ input.t = "object" /\ outcome.threw
     /\ outcome.err.message = "Data is not valid")
  => outcome.err.errors = ErrorsFrom(1)

\* two children fail and the input names the later one first
C3_Witness ==
  /\ BranchParsed /\ input.t = "object" /\ outcome.threw
  /\ outcome.err.message = "Data is not valid"
  /\ \E a, b \in 1..Len(Children(subject)) :
       /\ a < b
       /\ ChildOutcome(Children(subject)[a]).threw
       /\ ChildOutcome(Children(subject)[b]).threw
       /\ \E i, j \in 1..Len(input.kv) :
            /\ i < j
            /\ input.kv[i].k = heap[Children(subject)[b]].name
            /\ input.kv[j].k = heap[Children(subject)[a]].name

C5_ResultKeys ==
  (BranchParsed /\ ~outcome.threw)
  => /\ outcome.val = IF ValuesFrom(1) = <<>> THEN Undefined
                      ELSE Obj(ValuesFrom(1))
     /\ outcome.val # Obj(<<>>)
     /\ \A i \in 1..Len(outcome.val.kv) :
          outcome.val.kv[i].v.t \notin {"undefined", "null"}

\* a branch returned a mapping without the key of an optional child that
\* the input left out
C5_Witness ==
  /\ BranchParsed /\ ~outcome.threw
  /\ outcome.val.t = "object"
  /\ \E i \in 1..Len(Children(subject)) :
       /\ ~HasOwn(input, heap[Children(subject)[i]].name)
       /\ ~HasOwn(outcome.val, heap[Children(subject)[i]].name)

\* a nested branch whose children gave no value is no key of the result
C5_NestedVanishes ==
  /\ BranchParsed /\ ~outcome.threw
  /\ outcome.val.t = "object"
  /\ \E i \in 1..Len(Children(subject)) :
       /\ heap[Children(subject)[i]].hasChildren
       /\ ~HasOwn(outcome.val, heap[Children(subject)[i]].name)

-----------------------------------------------------------------------------
(* Required and default values *)

\* a parse call on a leaf has ended
LeafParsed == outcome.done /\ ~heap[subject].hasChildren

Setting(id, k) == Get(heap[id].settings, k)

\* `required` is truthy, or a [required, message] pair whose first element is
RequiredSet(id) ==
  /\ Truthy(Setting(id, "required"))
  /\ Setting(id, "required").t = "array" => Truthy(Setting(id, "required").kv[1].v)

\* the message of a missing required property: the one of the pair, or
\* 'Property <fullPath> is required'
RequiredMessage(id) ==
  IF Setting(id, "required").t = "array"
  THEN Setting(id, "required").kv[2].v.s
  ELSE "Property " \o fullPath(heap, id) \o " is required"

\* C6: a leaf with `required` set and no default, parsed with a falsy value
\* (undefined, 0, ''), throws an error tagged with the leaf whose message is
\* 'Property <fullPath> is required', or the message of the pair; no
\* transformer parse has run by then.
C6_RequiredMessage ==
  (LeafParsed /\ RequiredSet(subject) /\ ~HasOwn(heap[subject].settings, "default")
     /\ heap[subject].type \in DOMAIN Transformers /\ ~Truthy(input))
  => /\ outcome.threw
     /\ outcome.err.field = subject
     /\ outcome.err.message = RequiredMessage(subject)
     /\ \A i \in 1..Len(outcome.log) : outcome.log[i].op # "transformer.parse"

\* a leaf declared without `required` and without `default`
PlainLeaf(c) ==
  /\ ~heap[c].hasChildren
  /\ ~HasOwn(heap[c].settings, "required")
  /\ ~HasOwn(heap[c].settings, "default")

\* C7: properties are required by default: a branch parsed with a mapping
\* of declared keys only that lacks a child declared without `required` and
\* without a default throws 'Data is not valid' with exactly one
\* 'Property <fullPath> is required' for that child.
C7_RequiredByDefault ==
  (BranchParsed /\ input.t = "object" /\ ~HasUndeclaredKey)
  => \A i \in 1..Len(Children(subject)) :
       LET c == Children(subject)[i]
       IN (PlainLeaf(c) /\ ~HasOwn(input, heap[c].name))
          => /\ outcome.threw
             /\ outcome.err.message = "Data is not valid"
             /\ Cardinality({j \in 1..Len(outcome.err.errors) :
                   outcome.err.errors[j].message
                     = "Property " \o fullPath(heap, c) \o " is required"}) = 1

\* what the leaf parsed makes of a value once the default is decided
AfterDefault(v) ==
  _run(heap, Transformers, outcome.at, subject, heap[subject].type, v, <<>>)

DefaultValue(id) ==
  IF TypeOf(Setting(id, "default")) = "function"
  THEN Call(Setting(id, "default"), outcome.at)
  ELSE Setting(id, "default")

\* C8: a leaf with a `default` of any value, a falsy literal included,
\* parses the default whenever the input is falsy or absent (a function
\* default is called, another is taken as it is), so the property is a key
\* of the result of its branch; a truthy input is never replaced.
C8_DefaultSubstitution ==
  /\ (LeafParsed /\ HasOwn(heap[subject].settings, "default"))
     => LET r == AfterDefault(IF Truthy(input) THEN input
                              ELSE DefaultValue(subject))
        IN /\ outcome.threw = r.threw
           /\ outcome.val = r.val
           /\ outcome.err = r.err
  /\ (BranchParsed /\ ~outcome.threw)
     => \A i \in 1..Len(Children(subject)) :
          LET c == Children(subject)[i]
          IN (~heap[c].hasChildren /\ HasOwn(heap[c].settings, "default")
                /\ ~Truthy(ChildValue(c)))
             => HasOwn(outcome.val, heap[c].name)

\* the definition declares, at some depth, a leaf with a truthy `required`
\* and a `default`
RECURSIVE Contradictory(_)
Contradictory(schema) ==
  IF isNested(schema)
  THEN \E i \in 1..Len(schema.kv) : Contradictory(schema.kv[i].v)
  ELSE /\ TypeOf(schema) = "object"
       /\ Truthy(Get(schema, "required"))
       /\ HasOwn(schema, "default")

\* C9: building a schema in which a leaf declares both a truthy `required`
\* and a `default` fails in the constructor: no Schema object is made and
\* parse is never reached.
C9_ConstructionRejects ==
  (built.done /\ Contradictory(built.schema))
  => /\ built.threw
     /\ heap = <<>>
     /\ ~outcome.done

\* The message the documentation gives for a type without transformer.
UnknownTypeMessage(id) ==
  "Don't know how to resolve " \o heap[id].type \o " in property "
    \o fullPath(heap, id)

\* C10: a defined value parsed by a leaf whose type has no transformer
\* throws 'Don't know how to resolve <type> in property <fullPath>' tagged
\* with the leaf; a branch collects it as one entry of 'Data is not valid'
\* and parses the siblings all the same.
C10_UnknownType ==
  /\ (LeafParsed /\ heap[subject].type \notin DOMAIN Transformers
        /\ input # Undefined)
     => /\ outcome.threw
        /\ outcome.err.message = UnknownTypeMessage(subject)
        /\ outcome.err.field = subject
  /\ (BranchParsed /\ input.t = "object" /\ ~HasUndeclaredKey)
     => \A i \in 1..Len(Children(subject)) :
          LET c == Children(subject)[i]
          IN (~heap[c].hasChildren /\ heap[c].type \notin DOMAIN Transformers
                /\ ChildValue(c) # Undefined)
             => /\ outcome.threw
                /\ outcome.err.message = "Data is not valid"
                /\ Cardinality({j \in 1..Len(outcome.err.errors) :
                      /\ outcome.err.errors[j].message = UnknownTypeMessage(c)
                      /\ outcome.err.errors[j].field = c}) = 1
                /\ Turns = Children(subject)

-----------------------------------------------------------------------------
(* The errors of a composite and the node each comes from *)

\* a 'Data is not valid' composite was thrown on a mapping
CompositeThrown ==
  /\ BranchParsed /\ input.t = "object"
  /\ outcome.threw
  /\ outcome.err.message = "Data is not valid"

\* the input holds strings and numbers only
PlainValues ==
  \A i \in 1..Len(input.kv) : input.kv[i].v.t \in {"string", "number"}

\* every leaf built has a type of the registry
TypesRegistered ==
  \A id \in 1..Len(heap) :
    heap[id].hasChildren \/ heap[id].type \in DOMAIN Transformers

\* C12: every error of a 'Data is not valid' composite carries the node
\* whose parse failed as its field: a leaf under the branch parsed, and for
\* a failing leaf child of the branch that very child, whatever failed
\* (required, 'Invalid number', 'Invalid date', 'Invalid function').  Stated
\* for the failures of the required check and of the built-in transformers
\* on strings and numbers.
C12_ErrorsCarryField ==
  (CompositeThrown /\ PlainValues /\ TypesRegistered)
  => /\ \A i \in 1..Len(outcome.err.errors) :
          /\ outcome.err.errors[i].field \in 1..Len(heap)
          /\ ~heap[outcome.err.errors[i].field].hasChildren
     /\ \A i \in 1..Len(Children(subject)) :
          LET c == Children(subject)[i]
          IN (~heap[c].hasChildren /\ ChildOutcome(c).threw)
             => \E j \in 1..Len(outcome.err.errors) :
                  /\ outcome.err.errors[j].message = ChildOutcome(c).err.message
                  /\ outcome.err.errors[j].field = c

-----------------------------------------------------------------------------
(* The built-in transformers *)

\* a leaf of a built-in type with neither `required` nor `default`
BareLeaf(id, type) ==
  /\ ~heap[id].hasChildren
  /\ heap[id].type = type
  /\ ~HasOwn(heap[id].settings, "required")
  /\ ~HasOwn(heap[id].settings, "default")

\* a structurally valid mapping was parsed by a branch
ValidMappingParsed ==
  BranchParsed /\ input.t = "object" /\ ~HasUndeclaredKey

\* the composite thrown has an error of this message tagged with node c
Reports(c, message) ==
  /\ outcome.threw
  /\ outcome.err.message = "Data is not valid"
  /\ \E j \in 1..Len(outcome.err.errors) :
       /\ outcome.err.errors[j].message = message
       /\ outcome.err.errors[j].field = c

\* C16: a Number leaf without `autoCast: true` takes numbers only: a
\* numeric string under its property makes the branch throw 'Data is not
\* valid' with an 'Invalid number' error tagged with the leaf, and a number
\* is returned as it is; with `autoCast: true` a numeric string is
\* converted to its number and another string fails with 'Invalid number'.
C16_NumberNeedsAutoCast ==
  /\ ValidMappingParsed
     => \A i \in 1..Len(Children(subject)) :
          LET c == Children(subject)[i]
          IN (BareLeaf(c, "Number") /\ ~Truthy(Setting(c, "autoCast")))
             => /\ (ChildValue(c).t = "string"
                      /\ ChildValue(c).s \in NumericStrings \ {""})
                     => Reports(c, "Invalid number")
                /\ (ChildValue(c).t = "number" /\ ~outcome.threw)
                     => Get(outcome.val, heap[c].name) = ChildValue(c)
  /\ (LeafParsed /\ heap[subject].type = "Number"
        /\ Truthy(Setting(subject, "autoCast")) /\ input.t = "string")
     => IF input.s \in NumericStrings \ {""}
        THEN ~outcome.threw /\ outcome.val = StringToNumber(input.s)
        ELSE outcome.threw /\ outcome.err.message = "Invalid number"

\* C17: a string that is no date, parsed by a Date leaf, throws 'Invalid
\* date': a branch reports it in 'Data is not valid' tagged with the leaf;
\* a date string gives a Date.
C17_InvalidDate ==
  /\ ValidMappingParsed
     => \A i \in 1..Len(Children(subject)) :
          LET c == Children(subject)[i]
          IN (~heap[c].hasChildren /\ heap[c].type = "Date"
                /\ ChildValue(c).t = "string" /\ ChildValue(c).s # ""
                /\ DateParse(ChildValue(c)) = NaN)
             => Reports(c, "Invalid date")
  /\ (LeafParsed /\ heap[subject].type = "Date" /\ input.t = "string"
        /\ input.s # "")
     => IF DateParse(input) = NaN
        THEN outcome.threw /\ outcome.err.message = "Invalid date"
        ELSE ~outcome.threw /\ outcome.val = DateOf(DateParse(input))

\* C18: a Number leaf with `min: m` throws 'minimum accepted value is <m>'
\* for a number below m and returns m itself; with `max: M` it throws
\* 'maximum accepted value is <M>' for a number above M and returns M.
C18_NumberBounds ==
  (LeafParsed /\ heap[subject].type = "Number" /\ input.t = "number"
     /\ input # NaN)
  => /\ HasOwn(heap[subject].settings, "min")
          => LET m == Setting(subject, "min").n
             IN /\ input.n < m
                     => /\ outcome.threw
                        /\ outcome.err.message
                             = "minimum accepted value is " \o ToString(m)
                /\ input.n = m => ~outcome.threw /\ outcome.val = Num(m)
     /\ HasOwn(heap[subject].settings, "max")
          => LET M == Setting(subject, "max").n
             IN /\ input.n > M
                     => /\ outcome.threw
                        /\ outcome.err.message
                             = "maximum accepted value is " \o ToString(M)
                /\ input.n = M => ~outcome.threw /\ outcome.val = Num(M)

\* C20: a String leaf parsed with a value that is not a string (a number,
\* null, a mapping without a toString of its own) throws a validation
\* error 'Invalid string' tagged with the leaf, never an untagged error of
\* the runtime.
C20_InvalidString ==
  (LeafParsed /\ BareLeaf(subject, "String")
     /\ input.t \notin {"undefined", "string"}
     /\ ~HasOwn(input, "toString"))
  => /\ outcome.threw
     /\ outcome.err.cls = "ValidationError"
     /\ outcome.err.message = "Invalid string"
     /\ outcome.err.field = subject

-----------------------------------------------------------------------------
(* Structural errors and field errors *)

\* the mappings of the input: the input and the mappings it holds
InputMappings ==
  {input} \cup {input.kv[i].v : i \in {j \in 1..Len(input.kv) :
                                         input.kv[j].v.t = "object"}}

\* the messages structureValidation has for the keys of those mappings
UnknownPropertyMessages ==
  UNION {{"Unknown property " \o Dot(obj2dot(m)[i]) :
            i \in 1..Len(obj2dot(m))} : m \in InputMappings}

\* C19: a 'Data is not valid' composite lists no 'Unknown property' error,
\* also when the unknown key is inside the mapping of a nested branch, and
\* an 'Invalid object schema' composite lists 'Unknown property' errors
\* only.
C19_NoMixing ==
  (BranchParsed /\ input.t = "object" /\ outcome.threw)
  => /\ outcome.err.message \in {"Data is not valid", "Invalid object schema"}
     /\ outcome.err.message = "Data is not valid"
          => \A i \in 1..Len(outcome.err.errors) :
               outcome.err.errors[i].message \notin UnknownPropertyMessages
     /\ outcome.err.message = "Invalid object schema"
          => \A i \in 1..Len(outcome.err.errors) :
               outcome.err.errors[i].message \in UnknownPropertyMessages

-----------------------------------------------------------------------------
(* Parsing what parse returned *)

\* no leaf built has a function for its default
DeterministicDefaults ==
  \A id \in 1..Len(heap) : TypeOf(Setting(id, "default")) # "function"

\* the parse of the value the last parse returned, by the same node
Reparsed ==
  parse(heap, Transformers, outcome.at, subject, outcome.val, <<>>)

\* C15: when parse succeeds on a schema without function defaults, parsing
\* its result again with the same schema succeeds and gives an equal value.
C15_Idempotent ==
  (outcome.done /\ ~outcome.threw /\ DeterministicDefaults)
  => /\ ~Reparsed.threw
     /\ Reparsed.val = outcome.val

-----------------------------------------------------------------------------
(* The path getters *)

\* the paths of the leaves under a node, each with the name of the node in
\* front when the node has a name
LeafPaths(id) ==
  IF ~heap[id].hasChildren THEN <<<<heap[id].name>>>>
  ELSE [j \in 1..Len(Declared(id)) |->
          IF heap[id].name # "" THEN <<heap[id].name>> \o Declared(id)[j]
          ELSE Declared(id)[j]]

\* the names hasField is asked about: every path and every name there is
FieldNames ==
  UNION {{paths(heap, id)[i] : i \in 1..Len(paths(heap, id))}
           \cup {<<heap[id].name>>} : id \in 1..Len(heap)}

-----------------------------------------------------------------------------
(* Schemas nested in schemas *)

\* the Schema object a property of a definition holds, directly or as the
\* type of a settings mapping (0: none)
InstanceUnder(v) ==
  IF v.t = "schema" THEN v.n
  ELSE IF v.t = "object" /\ Get(v, "type").t = "schema" THEN Get(v, "type").n
  ELSE 0

\* the roots built from a definition that holds a Schema object under its
\* i-th property
Embeddings ==
  {e \in (1..Len(heap)) \X (1..MaxKeys) :
     /\ heap[e[1]].parent = NoParent
     /\ heap[e[1]].schema.t = "object"
     /\ e[2] <= Len(heap[e[1]].schema.kv)
     /\ InstanceUnder(heap[e[1]].schema.kv[e[2]].v) # 0}

\* C13: a Schema object nested under property p of a schema is bound to
\* that place: the node under p has name p and the embedding node for
\* parent, it has the children of the object, each with fullPath 'p.c', and
\* a required child c missing from the mapping under p is reported as
\* 'Property p.c is required' with that child for field.
C13_EmbeddedBinding ==
  \A e \in Embeddings :
    LET r == e[1]
        p == heap[r].schema.kv[e[2]].k
        S == InstanceUnder(heap[r].schema.kv[e[2]].v)
        node == heap[r].children[e[2]]
    IN /\ heap[node].name = p
       /\ heap[node].parent = r
       /\ heap[node].hasChildren = heap[S].hasChildren
       /\ Len(Children(node)) = Len(Children(S))
       /\ \A i \in 1..Len(Children(node)) :
            LET c == Children(node)[i]
            IN /\ heap[c].name = heap[Children(S)[i]].name
               /\ fullPath(heap, c) = p \o "." \o heap[c].name
               /\ (outcome.done /\ subject = r /\ input.t = "object"
                     /\ ~HasUndeclaredKey
                     /\ Get(input, p).t = "object"
                     /\ propertiesRestricted(Get(input, p), ownPaths(heap, S))
                     /\ RequiredSet(c)
                     /\ ~HasOwn(Get(input, p), heap[c].name))
                  => Reports(c, "Property " \o p \o "." \o heap[c].name
                                  \o " is required")

-----------------------------------------------------------------------------
(* The hooks of the life cycle *)

\* where a call is in the log of the last parse
Position(e) == {i \in 1..Len(outcome.log) : outcome.log[i] = e}

Once(e) == Cardinality(Position(e)) = 1

\* both calls were made, the first before the second
Before(a, b) ==
  /\ Position(a) # {} /\ Position(b) # {}
  /\ \A i \in Position(a) : \A j \in Position(b) : i < j

\* C11: in a parse of a root the hooks run in a fixed order: the cast of
\* the schema once and before the hooks of any field; for each field given
\* a value, in declaration order, the cast of the property, then its
\* validate, then the parse of the type; the validate of the schema once,
\* after every field, when no hook has thrown.
C11_LifecycleOrder ==
  (ValidMappingParsed /\ heap[subject].parent = NoParent /\ built.done)
  => /\ Truthy(Get(built.options, "cast"))
          => /\ Once(Ev("cast", subject, "schema"))
             /\ \A i \in 1..Len(Children(subject)) :
                  Before(Ev("cast", subject, "schema"),
                         Ev("parse", Children(subject)[i],
                            heap[Children(subject)[i]].type))
     /\ \A i \in 1..Len(Children(subject)) :
          LET c == Children(subject)[i]
          IN (~heap[c].hasChildren /\ ChildValue(c) # Undefined
                /\ Truthy(Setting(c, "cast")) /\ Truthy(Setting(c, "validate"))
                /\ ~ChildOutcome(c).threw)
             => /\ Once(Ev("cast", c, "property"))
                /\ Once(Ev("validate", c, "property"))
                /\ Before(Ev("cast", c, "property"),
                          Ev("validate", c, "property"))
                /\ Before(Ev("validate", c, "property"),
                          Ev("transformer.parse", c, heap[c].type))
     /\ (Truthy(Get(built.options, "validate")) /\ ~outcome.threw)
          => /\ Once(Ev("validate", subject, "schema"))
             /\ outcome.log[Len(outcome.log)] = Ev("validate", subject, "schema")

-----------------------------------------------------------------------------
(* Absent values *)

\* the calls of a kind made on a node in the last parse
CallsOn(op, id) == {i \in 1..Len(outcome.log) :
                      outcome.log[i].op = op /\ outcome.log[i].node = id}

\* C22: a leaf of any type name, registered or not, that is not required
\* and has no default returns undefined for undefined: it throws nothing
\* and no loader or parse hook of a transformer is called; in a branch such
\* a leaf left out of the mapping gives no error and no key.
C22_OptionalAbsent ==
  /\ (LeafParsed /\ ~HasOwn(heap[subject].settings, "required")
        /\ ~HasOwn(heap[subject].settings, "default") /\ input = Undefined)
     => /\ ~outcome.threw
        /\ outcome.val = Undefined
        /\ CallsOn("transformer.parse", subject) = {}
  /\ ValidMappingParsed
     => \A i \in 1..Len(Children(subject)) :
          LET c == Children(subject)[i]
          IN (~heap[c].hasChildren /\ ~HasOwn(heap[c].settings, "required")
                /\ ~HasOwn(heap[c].settings, "default")
                /\ ChildValue(c) = Undefined)
             => /\ \A j \in 1..Len(outcome.err.errors) :
                     outcome.err.errors[j].field # c
                /\ ~outcome.threw => ~HasOwn(outcome.val, heap[c].name)
                /\ ~ChildOutcome(c).threw

\* C25: a branch of a schema that sets no `required` next to a `default`,
\* parsed with null or undefined, throws no 'Invalid object schema'; every
\* child is parsed with undefined and the outcome is the one
\* of the children: the branch throws iff a child does, 'Data is not valid'
\* listing the errors of the children, and returns undefined or the mapping
\* of the defaults otherwise.
C25_NullIsAbsent ==
  (BranchParsed /\ input \in {Null, Undefined} /\ ~Contradictory(built.schema))
  => /\ outcome.err.message # "Invalid object schema"
     /\ \A i \in 1..Len(Children(subject)) :
          CallsOn("parse", Children(subject)[i]) # {}
     /\ outcome.threw
          <=> \E i \in 1..Len(Children(subject)) :
                ChildOutcome(Children(subject)[i]).threw
     /\ outcome.threw
          => /\ outcome.err.message = "Data is not valid"
             /\ outcome.err.errors = ErrorsFrom(1)
     /\ ~outcome.threw
          => outcome.val = IF ValuesFrom(1) = <<>> THEN Undefined
                           ELSE Obj(ValuesFrom(1))

-----------------------------------------------------------------------------
(* Flattening of the errors of nested branches *)

\* the entries child i of the branch parsed adds to the list of the branch
EntriesOf(i) ==
  LET r == ChildOutcome(Children(subject)[i])
  IN IF ~r.threw THEN <<>>
     ELSE IF r.err.cls = "ValidationError" /\ Len(r.err.errors) > 0
     THEN r.err.errors
     ELSE <<r.err>>

\* the number of entries the children before child i add
RECURSIVE EntriesBefore(_)
EntriesBefore(i) ==
  IF i <= 1 THEN 0 ELSE EntriesBefore(i - 1) + Len(EntriesOf(i - 1))

\* C24: the list of a 'Data is not valid' composite holds, at the position
\* of each failing child, the errors of the composite the child threw, or
\* the error itself when it is no composite with errors; so the list holds
\* leaf errors only, no 'Data is not valid' composite, and at least one
\* entry for every child that fails.
C24_Flattened ==
  (BranchParsed /\ outcome.threw /\ outcome.err.message = "Data is not valid")
  => /\ \A j \in 1..Len(outcome.err.errors) :
          /\ outcome.err.errors[j].errors = <<>>
          /\ outcome.err.errors[j].message # "Data is not valid"
     /\ input.t = "object"
          => /\ Len(outcome.err.errors)
                  = EntriesBefore(Len(Children(subject)) + 1)
             /\ \A i \in 1..Len(Children(subject)) :
                  /\ SubSeq(outcome.err.errors, EntriesBefore(i) + 1,
                            EntriesBefore(i) + Len(EntriesOf(i)))
                       = EntriesOf(i)
                  /\ ChildOutcome(Children(subject)[i]).threw
                       => Len(EntriesOf(i)) >= 1

\* a nested branch threw a composite and the root lists its errors after
\* the error of a leaf of its own
C24_Witness ==
  /\ BranchParsed /\ outcome.threw /\ input.t = "object"
  /\ outcome.err.message = "Data is not valid"
  /\ \E i \in 1..Len(Children(subject)) :
       LET r == ChildOutcome(Children(subject)[i])
       IN /\ heap[Children(subject)[i]].hasChildren
          /\ r.threw /\ r.err.message = "Data is not valid"
          /\ EntriesBefore(i) > 0
          /\ Len(outcome.err.errors) > EntriesBefore(i)

-----------------------------------------------------------------------------
(* The end of a parse *)

\* the turns child c had in the loop of branch b during the last parse
TurnsOf(b, c) == {i \in 1..Len(outcome.log) : outcome.log[i] = Turn(b, c)}

\* the branches whose loop ran in the last parse: the branch parsed, when
\* its structure is valid, and the nested branches that had a turn in such a
\* loop with a value of valid structure
RECURSIVE LoopsUnder(_, _)
LoopsUnder(b, obj) ==
  IF structureValidation(heap, b, obj) # NoError THEN {}
  ELSE {b} \cup
       UNION {LET c == Children(b)[i]
              IN IF heap[c].hasChildren /\ obj.t # "null"
                 THEN LoopsUnder(c, IF obj.t = "object"
                                    THEN Get(obj, heap[c].name) ELSE Undefined)
                 ELSE {} : i \in 1..Len(Children(b))}

\* neither the input nor a value it holds is null
NoNullInside ==
  /\ input # Null
  /\ \A i \in 1..Len(input.kv) : input.kv[i].v # Null

\* C29: with the transformers of the registry, whose loaders name no type
\* in a cycle, every parse ends, having given each child of each branch
\* whose loop ran exactly one turn, and no turn to any other node; a node
\* is parsed at most once for each of its turns, and once for each when no
\* value is null.
C29_VisitsOnce ==
  /\ outcome.done = (subject # 0)
  /\ BranchParsed
     => /\ \A b \in LoopsUnder(subject, input) :
             \A i \in 1..Len(Children(b)) :
               Cardinality(TurnsOf(b, Children(b)[i])) = 1
        /\ \A j \in 1..Len(outcome.log) :
             outcome.log[j].op = "ownPath"
               => outcome.log[j].by \in LoopsUnder(subject, input)
        /\ \A c \in 1..Len(heap) :
             LET turns == Cardinality(CallsOn("ownPath", c))
                            + (IF c = subject THEN 1 ELSE 0)
             IN /\ Cardinality(CallsOn("parse", c)) <= turns
                /\ NoNullInside
                     => Cardinality(CallsOn("parse", c)) = turns

\* a root with a nested branch was parsed to its end, the children of the
\* nested branch included
C29_Witness ==
  /\ BranchParsed
  /\ \E b \in LoopsUnder(subject, input) :
       b # subject /\ Children(b) # <<>>

-----------------------------------------------------------------------------
(* What parse leaves as it was *)

\* equal values, the order of the keys of a mapping left aside
RECURSIVE DeepEqual(_, _)
DeepEqual(a, b) ==
  IF a.t = "object" /\ b.t = "object"
  THEN /\ {a.kv[i].k : i \in 1..Len(a.kv)} = {b.kv[i].k : i \in 1..Len(b.kv)}
       /\ \A i \in 1..Len(a.kv) : DeepEqual(a.kv[i].v, Get(b, a.kv[i].k))
  ELSE a = b

\* a value a node has nothing to change in: a string for a String leaf, a
\* number for a Number leaf (truthy when the leaf has a default), for a
\* branch a mapping, not empty, of such values under declared keys, with a
\* key for every child that has a default
RECURSIVE Compliant(_, _)
Compliant(id, v) ==
  IF heap[id].hasChildren
  THEN /\ v.t = "object" /\ v.kv # <<>>
       /\ \A i \in 1..Len(v.kv) :
            \E j \in 1..Len(Children(id)) :
              /\ heap[Children(id)[j]].name = v.kv[i].k
              /\ Compliant(Children(id)[j], v.kv[i].v)
       /\ \A j \in 1..Len(Children(id)) :
            HasOwn(heap[Children(id)[j]].settings, "default")
              => HasOwn(v, heap[Children(id)[j]].name)
  ELSE /\ \/ heap[id].type = "String" /\ v.t = "string"
          \/ heap[id].type = "Number" /\ v.t = "number" /\ v # NaN
       /\ HasOwn(heap[id].settings, "default") => Truthy(v)

\* a parse call is made in this step
ParseStep == ~outcome.done /\ outcome'.done

-----------------------------------------------------------------------------
(* What embedding leaves as it was *)

\* a schema is built in this step from a definition that uses Schema
\* objects built before
EmbedStep == heap # <<>> /\ Len(heap') > Len(heap)

\* the places where a Schema object is nested as it is (not as a type)
DirectEmbeddings ==
  {e \in Embeddings : heap[e[1]].schema.kv[e[2]].v.t = "schema"}

\* C28: building a schema from a definition that nests a Schema object S
\* leaves S, and every Schema object built before, as it was: same name,
\* parent, type, settings and children, and S parses every input as
\* before; S can be nested at several places, each place having a node of
\* its own with the name of the place and the embedding node for parent.
C28_EmbeddingFrame ==
  /\ [][EmbedStep
          => /\ \A id \in 1..Len(heap) : heap'[id] = heap[id]
             /\ \A id \in InstancesIn(built'.schema) :
                  \A v \in InputsFor(heap, id) :
                    parse(heap', Transformers', clock', id, v, <<>>)
                      = parse(heap, Transformers, clock, id, v, <<>>)]_vars
  /\ [](\A e \in DirectEmbeddings :
          LET node == heap[e[1]].children[e[2]]
              S == heap[e[1]].schema.kv[e[2]].v.n
          IN /\ node # S
             /\ heap[node].name = heap[e[1]].schema.kv[e[2]].k
             /\ heap[node].parent = e[1]
             /\ heap[S].name = "" /\ heap[S].parent = NoParent
             /\ \A f \in DirectEmbeddings :
                  f # e => heap[f[1]].children[f[2]] # node)

\* a Schema object is nested at two places of one schema
C28_Witness ==
  \E e, f \in DirectEmbeddings :
    /\ e # f /\ e[1] = f[1]
    /\ heap[e[1]].schema.kv[e[2]].v = heap[f[1]].schema.kv[f[2]].v

-----------------------------------------------------------------------------
(* The loaders of a type *)

\* the loaders of the type of a leaf, none when the type has no entry
LoadersOf(id) ==
  IF heap[id].type \in DOMAIN Transformers
        /\ Truthy(Transformers[heap[id].type].loaders)
  THEN castArray(Transformers[heap[id].type].loaders)
  ELSE <<>>

\* the settings a loader entry carries: its keys but `type`
LoaderSettings(loader) ==
  IF loader.t = "object" THEN Delete(Obj(loader.kv), "type") ELSE Obj(<<>>)

\* the value v passed through the loaders i.. of the leaf, each loader
\* run with the settings of its own entry on what the one before returned
RECURSIVE Piped(_, _, _)
Piped(id, i, v) ==
  IF i > Len(LoadersOf(id)) THEN Return(v, <<>>)
  ELSE LET own == [heap EXCEPT ![id].settings = LoaderSettings(LoadersOf(id)[i])]
           r == _run(own, Transformers, clock, id,
                     guessType(LoadersOf(id)[i]), v, <<>>)
       IN IF r.threw THEN r ELSE Piped(id, i + 1, r.val)

\* the parse hooks called in the last parse, by type, in the order called
HooksCalled ==
  LET evs == SelectSeq(outcome.log, LAMBDA e : e.op = "transformer.parse")
  IN [i \in 1..Len(evs) |-> evs[i].type]

\* C23: a value given to a leaf whose type declares loaders goes through
\* the loaders in the order declared, each loader applying the settings of
\* its own entry to what the loader before returned; when a loader fails,
\* the leaf fails with the error of that loader and the parse hook of the
\* type is not called; when none fails, the parse hook of the type is called
\* last, after the hooks of the loaders.
C23_LoaderChain ==
  (/\ LeafParsed
   /\ LoadersOf(subject) # <<>>
   /\ input # Undefined)
    => LET piped == Piped(subject, 1, input)
           type == heap[subject].type
       IN IF piped.threw
          THEN /\ outcome.threw
               /\ outcome.err.message = piped.err.message
               /\ \A i \in 1..Len(HooksCalled) : HooksCalled[i] # type
          ELSE /\ HooksCalled # <<>>
               /\ HooksCalled[Len(HooksCalled)] = type
               /\ \A i \in 1..(Len(HooksCalled) - 1) : HooksCalled[i] # type

-----------------------------------------------------------------------------
(* The full path of a node *)

\* the names on the chain of parent links, from the root down to the node
RECURSIVE ChainNames(_)
ChainNames(id) ==
  IF heap[id].parent = NoParent THEN <<heap[id].name>>
  ELSE Append(ChainNames(heap[id].parent), heap[id].name)

\* the names of the chain that are not empty, joined with '.'
JoinedNames(id) == Dot(SelectSeq(ChainNames(id), LAMBDA name : name # ""))

\* C26: the fullPath of every node of every schema built is made of the
\* names on the chain of parent links from the root down to the node, the
\* empty names left out, joined with '.': '' for the root, 'k' for a child
\* k of the root, 'k.g' for a grandchild; so it neither starts nor ends
\* with '.' and holds no '..'.
C26_FullPathJoinsNames ==
  \A id \in 1..Len(heap) : fullPath(heap, id) = JoinedNames(id)

-----------------------------------------------------------------------------
(* Branches and leaves *)

\* the nodes that are the copy of a Schema object nested in a definition
Copies == {heap[e[1]].children[e[2]] : e \in DirectEmbeddings}

\* a plain mapping without a `type` key at its own level
PlainMapping(d) == d.t = "object" /\ ~HasOwn(d, "type")

\* C27: a node built from a definition d has children, one per key of d in
\* the order of the keys, each named by its key (so the names are unique)
\* with the node for parent, if and only if d is a plain mapping without a
\* `type` key at its own level; built from anything else (a type, a leaf
\* definition with `type`, an array of types) the node is a leaf without
\* children whose settings are the keys of the leaf definition but `type`.
C27_BranchIffMapping ==
  \A id \in (1..Len(heap)) \ Copies :
    LET d == heap[id].schema
        node == heap[id]
    IN /\ node.hasChildren <=> PlainMapping(d)
       /\ PlainMapping(d) =>
            /\ Len(node.children) = Len(d.kv)
            /\ \A i \in 1..Len(d.kv) :
                 /\ heap[node.children[i]].name = d.kv[i].k
                 /\ heap[node.children[i]].parent = id
       /\ ~PlainMapping(d) =>
            /\ node.children = <<>>
            /\ node.settings = IF d.t = "object"
                               THEN Delete(Obj(d.kv), "type")
                               ELSE Obj(<<>>)

====
